---------------------------- MODULE Spec2Model ----------------------------
(***************************************************************************)
(* argen: a generator of C argument parsers (src/src/codegen.rs).          *)
(*                                                                         *)
(* Two state machines share the operators that model the generator:        *)
(*   Spec     the generator pipeline: Spec::from_reader (deserialize and   *)
(*            sanity_check), Spec::gen and Spec::writeout on a raw input   *)
(*            document;                                                    *)
(*   RunSpec  the execution, statement by statement, of the parse_args     *)
(*            routine that Spec::c_parse_args emits for a validated Spec,  *)
(*            on a command line.                                           *)
(*                                                                         *)
(* A Rust String is a sequence of Unicode code points (integers); its      *)
(* len() is the length of its UTF-8 encoding.  c_type, which the code only *)
(* compares and interpolates, is a TLA+ string.  Option<T> is a record     *)
(* [some, v].  An emitted line of C is a record [ind, op, t, a, b]: its    *)
(* indentation (tabs), the format string it comes from (op) and the text   *)
(* interpolated into it.                                                   *)
(***************************************************************************)
EXTENDS Integers, Sequences, FiniteSets, TLC

VARIABLES raw, pc, spec, err, out, sink,
          argv, prog, line, i, arg_count, isset, vals, status, printed, first

genVars == <<raw, pc, spec, err, out, sink>>
runVars == <<argv, prog, line, i, arg_count, isset, vals, status, printed, first>>
vars == <<raw, pc, spec, err, out, sink,
          argv, prog, line, i, arg_count, isset, vals, status, printed, first>>

---------------------------------------------------------------------------
(* Bounds of the model.                                                    *)

MaxPos == 1
MaxNamed == 2
MaxArgs == 3

---------------------------------------------------------------------------
(* Strings and options.                                                    *)

None == [some |-> FALSE, v |-> <<>>]
NoneBool == [some |-> FALSE, v |-> FALSE]
Some(x) == [some |-> TRUE, v |-> x]

RECURSIVE Concat(_)
Concat(ss) == IF ss = <<>> THEN <<>> ELSE Head(ss) \o Concat(Tail(ss))

\* String::len(): the number of bytes of the UTF-8 encoding.
Utf8Len(c) == IF c < 128 THEN 1 ELSE IF c < 2048 THEN 2 ELSE IF c < 65536 THEN 3 ELSE 4

RECURSIVE StrLen(_)
StrLen(s) == IF s = <<>> THEN 0 ELSE Utf8Len(Head(s)) + StrLen(Tail(s))

\* str::find(char): the first position of the character, if any.
Find(s, c) ==
    IF \E j \in 1..Len(s) : s[j] = c
    THEN Some(CHOOSE j \in 1..Len(s) : s[j] = c /\ \A h \in 1..(j - 1) : s[h] # c)
    ELSE [some |-> FALSE, v |-> 0]

\* Option<bool>::unwrap_or(false)
UnwrapOrFalse(o) == IF o.some THEN o.v ELSE FALSE

\* The fixed texts of the format strings that the model reads back.
DashDash == <<45, 45>>                              \* "--"
IssetSuffix == <<95, 95, 105, 115, 115, 101, 116>>  \* "__isset"
DQuote == <<34>>
SQuote == <<39>>
AmpSep == <<44, 32, 38>>                            \* ", &"

PERMITTED_C_TYPES == <<"char", "char*", "int32">>

\* The regular expression ^[_a-zA-Z][_a-zA-Z0-9]*$ (no multi-line flag: $ is
\* the end of the text).
IdentStart(c) == c = 95 \/ c \in 97..122 \/ c \in 65..90
IdentPart(c) == IdentStart(c) \/ c \in 48..57
identifier_re(s) ==
    /\ Len(s) >= 1
    /\ IdentStart(s[1])
    /\ \A j \in 2..Len(s) : IdentPart(s[j])

valid_type(t) == \E k \in 1..Len(PERMITTED_C_TYPES) : PERMITTED_C_TYPES[k] = t

---------------------------------------------------------------------------
(* Spec::sanity_check: the first failed assertion panics.                  *)

Ok == [ok |-> TRUE, msg |-> ""]
Panic(m) == [ok |-> FALSE, msg |-> m]

NameHasNoSpace(s) == ~ Find(s, 32).some

ShortNameOk(o) == o.some => StrLen(o.v) = 1

AliasesOk(o) == o.some => \A j \in 1..Len(o.v) : ~ Find(o.v[j], 32).some

PItemCheck(pi) ==
    IF ~ identifier_re(pi.c_var) THEN Panic("invalid c variable")
    ELSE IF ~ valid_type(pi.c_type) THEN Panic("invalid c type")
    ELSE Ok

\* NPItemCheck without the assertion on c_type
NPItemCheck_no_type(pi) ==
    IF ~ identifier_re(pi.c_var) THEN Panic("invalid c variable")
    ELSE IF ~ NameHasNoSpace(pi.name) THEN Panic("invalid argument name")
    ELSE IF ~ ShortNameOk(pi.short) THEN Panic("invalid short name")
    ELSE IF ~ AliasesOk(pi.aliases) THEN Panic("invalid argument alias name")
    ELSE Ok

NPItemCheck(pi) ==
    IF ~ identifier_re(pi.c_var) THEN Panic("invalid c variable")
    ELSE IF ~ valid_type(pi.c_type) THEN Panic("invalid c type")
    ELSE IF ~ NameHasNoSpace(pi.name) THEN Panic("invalid argument name")
    ELSE IF ~ ShortNameOk(pi.short) THEN Panic("invalid short name")
    ELSE IF ~ AliasesOk(pi.aliases) THEN Panic("invalid argument alias name")
    ELSE Ok

RECURSIVE FirstFailure(_)
FirstFailure(rs) ==
    IF rs = <<>> THEN Ok
    ELSE IF ~ Head(rs).ok THEN Head(rs)
    ELSE FirstFailure(Tail(rs))

\* sanity_check that looks at the first named argument only
sanity_check_first_named(s) ==
    FirstFailure([j \in 1..Len(s.positional) |-> PItemCheck(s.positional[j])]
                 \o [j \in 1..(IF Len(s.non_positional) > 0 THEN 1 ELSE 0) |->
                        NPItemCheck(s.non_positional[j])])

sanity_check(s) ==
    FirstFailure([j \in 1..Len(s.positional) |-> PItemCheck(s.positional[j])]
                 \o [j \in 1..Len(s.non_positional) |-> NPItemCheck(s.non_positional[j])])

---------------------------------------------------------------------------
(* The per-argument emitters.                                              *)

Ln(ind, op, t, a, b) == [ind |-> ind, op |-> op, t |-> t, a |-> a, b |-> b]

NPItem_decl_main(npi) == <<Ln(1, "decl", npi.c_type, npi.c_var, <<>>)>>

NPItem_decl_parse(npi) == <<Ln(1, "decl_isset", "", npi.c_var \o IssetSuffix, <<>>)>>

GenAssign(npi) ==
    IF npi.c_type = "int32" THEN <<Ln(3, "assign_atoi", "", npi.c_var, <<>>)>>
    ELSE IF npi.c_type = "char*" THEN <<Ln(3, "assign_str", "", npi.c_var, <<>>)>>
    ELSE IF npi.c_type = "char" THEN <<Ln(3, "assign_chr", "", npi.c_var, <<>>)>>
    ELSE <<>>

\* gen that compares the token with the first alias when there is one
NPItem_gen_alias(npi) ==
    <<Ln(2, "if_match", "", <<>>,
         DashDash \o (IF npi.aliases.some /\ npi.aliases.v # <<>>
                      THEN npi.aliases.v[1] ELSE npi.name))>>
    \o GenAssign(npi)
    \o <<Ln(3, "set_isset", "", npi.c_var \o IssetSuffix, <<>>),
         Ln(3, "arg_count_add2", "", <<>>, <<>>),
         Ln(2, "close", "", <<>>, <<>>)>>

NPItem_gen(npi) ==
    <<Ln(2, "if_match", "", <<>>, DashDash \o npi.name)>>
    \o GenAssign(npi)
    \o <<Ln(3, "set_isset", "", npi.c_var \o IssetSuffix, <<>>),
         Ln(3, "arg_count_add2", "", <<>>, <<>>),
         Ln(2, "close", "", <<>>, <<>>)>>

DefaultAssign(npi) ==
    IF npi.c_type = "int32" THEN <<Ln(2, "assign_lit", "", npi.c_var, npi.default.v)>>
    ELSE IF npi.c_type = "char*"
    THEN <<Ln(2, "assign_lit", "", npi.c_var, DQuote \o npi.default.v \o DQuote)>>
    ELSE IF npi.c_type = "char"
    THEN <<Ln(2, "assign_lit", "", npi.c_var, SQuote \o npi.default.v \o SQuote)>>
    ELSE <<>>

\* post_loop that looks at the default before the required flag
PostLoopBody_default_first(npi) ==
    IF npi.default.some THEN DefaultAssign(npi)
    ELSE IF UnwrapOrFalse(npi.required)
    THEN <<Ln(2, "usage", "", <<>>, <<>>), Ln(2, "exit1", "", <<>>, <<>>)>>
    ELSE <<>>

PostLoopBody(npi) ==
    IF UnwrapOrFalse(npi.required)
    THEN <<Ln(2, "usage", "", <<>>, <<>>), Ln(2, "exit1", "", <<>>, <<>>)>>
    ELSE IF npi.default.some THEN DefaultAssign(npi)
    ELSE <<>>

NPItem_post_loop(npi) ==
    <<Ln(1, "if_not_isset", "", npi.c_var \o IssetSuffix, <<>>)>>
    \o PostLoopBody(npi)
    \o <<Ln(1, "close", "", <<>>, <<>>)>>

PItem_decl(pi) == <<Ln(1, "decl", pi.c_type, pi.c_var, <<>>)>>

PItem_gen(pi) == <<>>

PItem_post_loop(pi) == <<>>

---------------------------------------------------------------------------
(* The module assembler.                                                   *)

c_headers(s) ==
    <<Ln(0, "include", "stdlib.h", <<>>, <<>>),
      Ln(0, "include", "stdio.h", <<>>, <<>>),
      Ln(0, "include", "string.h", <<>>, <<>>)>>

\* "  --" name, then "  --" alias for each alias
UsageLong(npi) ==
    <<32, 32, 45, 45>> \o npi.name
    \o (IF npi.aliases.some
        THEN Concat([j \in 1..Len(npi.aliases.v) |-> <<32, 32, 45, 45>> \o npi.aliases.v[j]])
        ELSE <<>>)

\* "\n        " help
UsageHelp(npi) ==
    IF npi.help.some THEN <<10, 32, 32, 32, 32, 32, 32, 32, 32>> \o npi.help.v ELSE <<>>

\* "  -{short}{long}{help}\n", or "     {long}{help}\n"
UsageItem(npi) ==
    IF npi.short.some
    THEN <<32, 32, 45>> \o npi.short.v \o UsageLong(npi) \o UsageHelp(npi) \o <<10>>
    ELSE <<32, 32, 32, 32, 32>> \o UsageLong(npi) \o UsageHelp(npi) \o <<10>>

c_usage(s) ==
    <<Ln(0, "usage_open", "[TODO ...]", <<>>, <<>>),
      Ln(0, "usage_help", "", <<>>, <<>>)>>
    \o [j \in 1..Len(s.non_positional) |->
            Ln(0, "usage_item", "", <<>>, UsageItem(s.non_positional[j]))]
    \o <<Ln(0, "usage_close", "", <<>>, <<>>)>>

c_parse_args(s) ==
    <<Ln(0, "parse_args_open", "", <<>>, <<>>)>>
    \o Concat([j \in 1..Len(s.non_positional) |-> NPItem_decl_parse(s.non_positional[j])])
    \o <<Ln(1, "decl_arg_count", "", <<>>, <<>>)>>
    \o <<Ln(1, "for", "1", <<>>, <<>>)>>
    \o Concat([j \in 1..Len(s.non_positional) |-> NPItem_gen(s.non_positional[j])])
    \o <<Ln(1, "close", "", <<>>, <<>>)>>
    \o <<Ln(1, "for", "arg_count", <<>>, <<>>)>>
    \o Concat([j \in 1..Len(s.positional) |-> PItem_gen(s.positional[j])])
    \o <<Ln(1, "close", "", <<>>, <<>>)>>
    \o Concat([j \in 1..Len(s.positional) |-> PItem_post_loop(s.positional[j])])
    \o Concat([j \in 1..Len(s.non_positional) |-> NPItem_post_loop(s.non_positional[j])])
    \o <<Ln(0, "close", "", <<>>, <<>>)>>

\* ", &{c_var}" for each positional, then for each named argument
CallArgs(s) ==
    Concat([j \in 1..Len(s.positional) |-> AmpSep \o s.positional[j].c_var])
    \o Concat([j \in 1..Len(s.non_positional) |-> AmpSep \o s.non_positional[j].c_var])

\* c_main that declares and passes the named arguments first
c_main_named_first(s) ==
    <<Ln(0, "main_open", "", <<>>, <<>>)>>
    \o Concat([j \in 1..Len(s.non_positional) |-> NPItem_decl_main(s.non_positional[j])])
    \o Concat([j \in 1..Len(s.positional) |-> PItem_decl(s.positional[j])])
    \o <<Ln(1, "call_parse_args", "", <<>>,
            Concat([j \in 1..Len(s.non_positional) |-> AmpSep \o s.non_positional[j].c_var])
            \o Concat([j \in 1..Len(s.positional) |-> AmpSep \o s.positional[j].c_var]))>>
    \o <<Ln(1, "todo_comment", "", <<>>, <<>>)>>
    \o <<Ln(0, "close", "", <<>>, <<>>)>>

c_main(s) ==
    <<Ln(0, "main_open", "", <<>>, <<>>)>>
    \o Concat([j \in 1..Len(s.positional) |-> PItem_decl(s.positional[j])])
    \o Concat([j \in 1..Len(s.non_positional) |-> NPItem_decl_main(s.non_positional[j])])
    \o <<Ln(1, "call_parse_args", "", <<>>, CallArgs(s))>>
    \o <<Ln(1, "todo_comment", "", <<>>, <<>>)>>
    \o <<Ln(0, "close", "", <<>>, <<>>)>>

Blank == <<Ln(0, "blank", "", <<>>, <<>>)>>

\* format!("{}\n\n{}\n{}\n{}", h, usage, body, main)
gen(s) == c_headers(s) \o Blank \o c_usage(s) \o Blank \o c_parse_args(s) \o Blank \o c_main(s)

---------------------------------------------------------------------------
(* The generator pipeline: from_reader, gen, writeout.                     *)

PItem(c_var, c_type, help) == [c_var |-> c_var, c_type |-> c_type, help |-> help]

NPItem(c_var, c_type, name, short, aliases, help, required, default) ==
    [c_var |-> c_var, c_type |-> c_type, name |-> name, short |-> short,
     aliases |-> aliases, help |-> help, required |-> required, default |-> default]

\* Positional arguments of the input documents.
PPool ==
    { PItem(<<112>>, "int32", None),                 \* p
      PItem(<<113>>, "char*", Some(<<104>>)),        \* q, help "h"
      PItem(<<51, 112>>, "char", None),              \* 3p: no identifier
      PItem(<<114>>, "float", None) }                \* r: float

\* Named arguments of the input documents.
NPPool ==
    { \* x: --a, -p, required with a default
      NPItem(<<120>>, "int32", <<97>>, Some(<<112>>), None, None, Some(TRUE), Some(<<53>>)),
      \* y: --b with aliases b1 and b2, help, a default
      NPItem(<<121>>, "char*", <<98>>, None, Some(<< <<98, 49>>, <<98, 50>> >>),
             Some(<<104>>), NoneBool, Some(<<108, 111>>)),
      \* z: --c, required=false, a default
      NPItem(<<122>>, "char", <<99>>, None, None, None, Some(FALSE), Some(<<107>>)),
      \* u: --d, optional, no default
      NPItem(<<117>>, "int32", <<100>>, None, Some(<<>>), None, NoneBool, None),
      \* _1: an identifier
      NPItem(<<95, 49>>, "char", <<101>>, Some(<<101>>), None, None, NoneBool, None),
      \* "x y", "", "v\n": no identifiers
      NPItem(<<120, 32, 121>>, "int32", <<97>>, None, None, None, NoneBool, None),
      NPItem(<<>>, "int32", <<97>>, None, None, None, NoneBool, None),
      NPItem(<<118, 10>>, "int32", <<97>>, None, None, None, NoneBool, None),
      \* float, with a default
      NPItem(<<102>>, "float", <<102>>, None, None, None, NoneBool, Some(<<49>>)),
      \* a name with a space, a name with a tab
      NPItem(<<103>>, "int32", <<97, 32, 98>>, None, None, None, NoneBool, None),
      NPItem(<<104>>, "int32", <<97, 9, 98>>, None, None, None, NoneBool, None),
      \* short names "ab", "" and U+00E9 (one character, two bytes)
      NPItem(<<105>>, "int32", <<105>>, Some(<<97, 98>>), None, None, NoneBool, None),
      NPItem(<<106>>, "int32", <<106>>, Some(<<>>), None, None, NoneBool, None),
      NPItem(<<107>>, "int32", <<107>>, Some(<<233>>), None, None, NoneBool, None),
      \* aliases: a space in the second alias; a newline in an alias
      NPItem(<<108>>, "int32", <<108>>, None, Some(<< <<111>>, <<98, 32, 100>> >>),
             None, NoneBool, None),
      NPItem(<<109>>, "int32", <<109>>, None, Some(<< <<98, 10, 100>> >>),
             None, NoneBool, None) }

SeqsUpTo(S, n) == UNION { [1..k -> S] : k \in 0..n }

\* The raw documents: one that serde_json rejects, and the well-formed ones.
Malformed == [wellformed |-> FALSE, positional |-> <<>>, non_positional |-> <<>>]

RawInputs ==
    { Malformed } \cup
    { [wellformed |-> TRUE, positional |-> ps, non_positional |-> nps] :
        ps \in SeqsUpTo(PPool, MaxPos), nps \in SeqsUpTo(NPPool, MaxNamed) }

NoSpec == [positional |-> <<>>, non_positional |-> <<>>]

\* serde_json::from_reader(rdr)
Deserialize(r) == [positional |-> r.positional, non_positional |-> r.non_positional]

RunIdle ==
    /\ argv = <<>>
    /\ prog = <<>>
    /\ line = 0
    /\ i = 0
    /\ arg_count = 0
    /\ isset = <<>>
    /\ vals = <<>>
    /\ status = "idle"
    /\ printed = FALSE
    /\ first = <<>>

Init ==
    /\ raw \in RawInputs
    /\ pc = "start"
    /\ spec = NoSpec
    /\ err = ""
    /\ out = <<>>
    /\ sink = <<>>
    /\ RunIdle

\* from_reader: the document does not parse: expect() panics.
FromReaderMalformed ==
    /\ pc = "start"
    /\ ~ raw.wellformed
    /\ pc' = "panicked"
    /\ err' = "parse json argument spec"
    /\ UNCHANGED <<raw, spec, out, sink>>
    /\ UNCHANGED runVars

\* from_reader: sanity_check panics on the first invalid field.
FromReaderInvalid ==
    /\ pc = "start"
    /\ raw.wellformed
    /\ ~ sanity_check(Deserialize(raw)).ok
    /\ pc' = "panicked"
    /\ err' = sanity_check(Deserialize(raw)).msg
    /\ UNCHANGED <<raw, spec, out, sink>>
    /\ UNCHANGED runVars

\* from_reader returns the Spec.
FromReaderOk ==
    /\ pc = "start"
    /\ raw.wellformed
    /\ sanity_check(Deserialize(raw)).ok
    /\ pc' = "loaded"
    /\ spec' = Deserialize(raw)
    /\ UNCHANGED <<raw, err, out, sink>>
    /\ UNCHANGED runVars

\* Spec::gen on the Spec from_reader returned.
Gen ==
    /\ pc = "loaded"
    /\ out = <<>>
    /\ out' = gen(spec)
    /\ UNCHANGED <<raw, pc, spec, err, sink>>
    /\ UNCHANGED runVars

\* Spec::writeout: write_all(self.gen()) into the writer.
Writeout ==
    /\ pc = "loaded"
    /\ sink = <<>>
    /\ sink' = sink \o gen(spec)
    /\ UNCHANGED <<raw, pc, spec, err, out>>
    /\ UNCHANGED runVars

\* Spec::writeout on a writer that fails: write_all has written some prefix
\* of the text when expect() panics.
WriteoutFails ==
    /\ pc = "loaded"
    /\ sink = <<>>
    /\ \E n \in 0..(Len(gen(spec)) - 1) : sink' = sink \o SubSeq(gen(spec), 1, n)
    /\ pc' = "panicked"
    /\ err' = "write generated code to file"
    /\ UNCHANGED <<raw, spec, out>>
    /\ UNCHANGED runVars

Next ==
    \/ FromReaderMalformed
    \/ FromReaderInvalid
    \/ FromReaderOk
    \/ Gen
    \/ Writeout
    \/ WriteoutFails

Spec == Init /\ [][Next]_vars

---------------------------------------------------------------------------
(* The emitted parse_args routine, executed on a command line.             *)
(* argv[0] is the program name: C's argv[j] is Argv(j), argc is Argc.      *)

Argc == Len(argv)
Argv(j) == argv[j + 1]

\* The named arguments of the programs that are run: x, y, z of NPPool with
\* z's default dropped, so that every required/default combination and every
\* type is run.
RunPool ==
    { NPItem(<<120>>, "int32", <<97>>, Some(<<112>>), None, None, Some(TRUE), Some(<<53>>)),
      NPItem(<<121>>, "char*", <<98>>, None, Some(<< <<98, 49>>, <<98, 50>> >>),
             Some(<<104>>), NoneBool, Some(<<108, 111>>)),
      NPItem(<<122>>, "char", <<99>>, None, None, None, Some(FALSE), None) }

\* Command-line tokens: --a, --b, -p, --b1, 7
Tokens == { <<45, 45, 97>>, <<45, 45, 98>>, <<45, 112>>, <<45, 45, 98, 49>>, <<55>> }

ProgName == <<97, 46, 111, 117, 116>>

Injective(f) == \A m, n \in DOMAIN f : f[m] = f[n] => m = n

RunInputs ==
    { [wellformed |-> TRUE, positional |-> <<>>, non_positional |-> nps] :
        nps \in { q \in SeqsUpTo(RunPool, MaxNamed) : q # <<>> /\ Injective(q) } }

Reverse(q) == [j \in 1..Len(q) |-> q[Len(q) + 1 - j]]

\* The variables of main, whose addresses parse_args receives: not yet assigned.
Unset == [from |-> "unset", v |-> <<>>]
FromArgv(x) == [from |-> "argv", v |-> x]
FromDefault(x) == [from |-> "default", v |-> x]

MainVars(s) == [v \in { s.non_positional[j].c_var : j \in 1..Len(s.non_positional) } |-> Unset]

\* atoi: white space, an optional sign, then decimal digits.
IsSpace(c) == c = 32 \/ c \in 9..13

RECURSIVE Digits(_, _)
Digits(s, acc) ==
    IF s # <<>> /\ Head(s) \in 48..57
    THEN Digits(Tail(s), 10 * acc + (Head(s) - 48))
    ELSE acc

RECURSIVE Atoi(_)
Atoi(s) ==
    IF s = <<>> THEN 0
    ELSE IF IsSpace(Head(s)) THEN Atoi(Tail(s))
    ELSE IF Head(s) = 45 THEN 0 - Digits(Tail(s), 0)
    ELSE IF Head(s) = 43 THEN Digits(Tail(s), 0)
    ELSE Digits(s, 0)

\* argv[i][0]: the first character, or the terminating NUL
FirstChar(s) == IF s = <<>> THEN 0 ELSE s[1]

\* The closing brace of the block that line l opens.
MatchingClose(l) ==
    CHOOSE m \in (l + 1)..Len(prog) :
        /\ prog[m].op = "close"
        /\ prog[m].ind = prog[l].ind
        /\ \A h \in (l + 1)..(m - 1) : ~ (prog[h].op = "close" /\ prog[h].ind = prog[l].ind)

\* The for statement that the closing brace at line l closes.
MatchingFor(l) ==
    CHOOSE m \in 1..(l - 1) :
        /\ prog[m].op = "for"
        /\ \A h \in (m + 1)..(l - 1) : prog[h].op # "for"

\* One statement of a block's body, on the routine's local state.
ExecStmt(st, ln) ==
    IF st.status # "running" THEN st
    ELSE IF ln.op = "assign_atoi"
    THEN [st EXCEPT !.i = st.i + 1,
                    !.vals = [st.vals EXCEPT ![ln.a] = FromArgv(<<Atoi(Argv(st.i + 1))>>)]]
    ELSE IF ln.op = "assign_str"
    THEN [st EXCEPT !.i = st.i + 1,
                    !.vals = [st.vals EXCEPT ![ln.a] = FromArgv(Argv(st.i + 1))]]
    ELSE IF ln.op = "assign_chr"
    THEN [st EXCEPT !.i = st.i + 1,
                    !.vals = [st.vals EXCEPT ![ln.a] = FromArgv(<<FirstChar(Argv(st.i + 1))>>)]]
    ELSE IF ln.op = "set_isset"
    THEN [st EXCEPT !.isset = [st.isset EXCEPT ![ln.a] = TRUE]]
    ELSE IF ln.op = "arg_count_add2"
    THEN [st EXCEPT !.arg_count = st.arg_count + 2]
    ELSE IF ln.op = "usage"
    THEN [st EXCEPT !.printed = TRUE]
    ELSE IF ln.op = "exit1"
    THEN [st EXCEPT !.status = "exit1"]
    ELSE IF ln.op = "assign_lit"
    THEN [st EXCEPT !.vals = [st.vals EXCEPT ![ln.a] = FromDefault(ln.b)]]
    ELSE st

RECURSIVE ExecBody(_, _)
ExecBody(st, lns) == IF lns = <<>> THEN st ELSE ExecBody(ExecStmt(st, Head(lns)), Tail(lns))

Local == [i |-> i, arg_count |-> arg_count, isset |-> isset, vals |-> vals,
          status |-> status, printed |-> printed]

\* The block opened at the current line, executed.
AfterBlock == ExecBody(Local, SubSeq(prog, line + 1, MatchingClose(line) - 1))

RunInit ==
    /\ raw \in RunInputs
    /\ sanity_check(Deserialize(raw)).ok
    /\ pc = "loaded"
    /\ spec = Deserialize(raw)
    /\ err = ""
    /\ out = <<>>
    /\ sink = <<>>
    /\ argv \in { <<ProgName>> \o t : t \in SeqsUpTo(Tokens, MaxArgs) }
    /\ prog = c_parse_args(spec)
    /\ line = 1
    /\ i = 0
    /\ arg_count = 0
    /\ isset = <<>>
    /\ vals = MainVars(spec)
    /\ status = "running"
    /\ printed = FALSE
    /\ first = <<>>

At(op) == status = "running" /\ line \in 1..Len(prog) /\ prog[line].op = op

\* void parse_args(int argc, char **argv) {
EnterParseArgs ==
    /\ At("parse_args_open")
    /\ line' = line + 1
    /\ UNCHANGED <<argv, prog, i, arg_count, isset, vals, status, printed, first>>
    /\ UNCHANGED genVars

\* bool {c_var}__isset = false;
DeclIsset ==
    /\ At("decl_isset")
    /\ isset' = (prog[line].a :> FALSE) @@ isset
    /\ line' = line + 1
    /\ UNCHANGED <<argv, prog, i, arg_count, vals, status, printed, first>>
    /\ UNCHANGED genVars

\* int arg_count = 0;
DeclArgCount ==
    /\ At("decl_arg_count")
    /\ arg_count' = 0
    /\ line' = line + 1
    /\ UNCHANGED <<argv, prog, i, isset, vals, status, printed, first>>
    /\ UNCHANGED genVars

\* for (int i = 1; i < argc; i++) {   and   for (int i = arg_count; i < argc; i++) {
ForEnter ==
    /\ At("for")
    /\ i' = (IF prog[line].t = "1" THEN 1 ELSE arg_count)
    /\ line' = (IF i' < Argc THEN line + 1 ELSE MatchingClose(line) + 1)
    /\ UNCHANGED <<argv, prog, arg_count, isset, vals, status, printed, first>>
    /\ UNCHANGED genVars

\* the closing brace of a for statement: i++, then the test i < argc
ForNext ==
    /\ At("close")
    /\ prog[line].ind = 1
    /\ i' = i + 1
    /\ line' = (IF i' < Argc THEN MatchingFor(line) + 1 ELSE line + 1)
    /\ UNCHANGED <<argv, prog, arg_count, isset, vals, status, printed, first>>
    /\ UNCHANGED genVars

\* if (!strcmp(argv[i], "--{name}") && i+1<argc) { ... }
IfMatch ==
    /\ At("if_match")
    /\ IF Argv(i) = prog[line].b /\ i + 1 < Argc
       THEN /\ i' = AfterBlock.i
            /\ arg_count' = AfterBlock.arg_count
            /\ isset' = AfterBlock.isset
            /\ vals' = AfterBlock.vals
       ELSE UNCHANGED <<i, arg_count, isset, vals>>
    /\ line' = MatchingClose(line) + 1
    /\ UNCHANGED <<argv, prog, status, printed, first>>
    /\ UNCHANGED genVars

\* if (!{c_var}__isset) { ... }
PostLoopIf ==
    /\ At("if_not_isset")
    /\ IF ~ isset[prog[line].a]
       THEN /\ vals' = AfterBlock.vals
            /\ printed' = AfterBlock.printed
            /\ status' = AfterBlock.status
            /\ line' = (IF AfterBlock.status = "running" THEN MatchingClose(line) + 1 ELSE line)
       ELSE /\ line' = MatchingClose(line) + 1
            /\ UNCHANGED <<vals, printed, status>>
    /\ UNCHANGED <<argv, prog, i, arg_count, isset, first>>
    /\ UNCHANGED genVars

\* the closing brace of parse_args
Return ==
    /\ At("close")
    /\ prog[line].ind = 0
    /\ status' = "returned"
    /\ UNCHANGED <<argv, prog, line, i, arg_count, isset, vals, printed, first>>
    /\ UNCHANGED genVars

Outcome == [isset |-> isset, vals |-> vals, status |-> status]

\* The generator run again on the same named arguments in the reverse order,
\* and the emitted routine on the same command line.
Rerun ==
    /\ status \in {"returned", "exit1"}
    /\ first = <<>>
    /\ Len(spec.non_positional) >= 2
    /\ first' = <<Outcome>>
    /\ raw' = [raw EXCEPT !.non_positional = Reverse(raw.non_positional)]
    /\ sanity_check(Deserialize(raw')).ok
    /\ spec' = Deserialize(raw')
    /\ prog' = c_parse_args(spec')
    /\ line' = 1
    /\ i' = 0
    /\ arg_count' = 0
    /\ isset' = <<>>
    /\ vals' = MainVars(spec')
    /\ status' = "running"
    /\ printed' = FALSE
    /\ UNCHANGED <<pc, err, out, sink, argv>>

RunNext ==
    \/ EnterParseArgs
    \/ DeclIsset
    \/ DeclArgCount
    \/ ForEnter
    \/ ForNext
    \/ IfMatch
    \/ PostLoopIf
    \/ Return
    \/ Rerun

RunSpec == RunInit /\ [][RunNext]_vars

---------------------------------------------------------------------------
(* Vocabulary of the properties.                                           *)

Range(s) == { s[j] : j \in 1..Len(s) }

Letters == (65..90) \cup (97..122)

IsIdentifierSyntax(s) ==
    /\ s # <<>>
    /\ s[1] \in Letters \cup {95}
    /\ Range(s) \subseteq Letters \cup (48..57) \cup {95}

InWhitelist(t) == t \in {"char", "char*", "int32"}

SpaceFree(s) == 32 \notin Range(s)

WhitespaceFree(s) == Range(s) \cap ({32, 133, 160} \cup (9..13)) = {}

PositionalValid(pi) == IsIdentifierSyntax(pi.c_var) /\ InWhitelist(pi.c_type)

\* every invariant of a named argument but the one on its short name
NamedValidButShort(npi) ==
    /\ IsIdentifierSyntax(npi.c_var)
    /\ InWhitelist(npi.c_type)
    /\ SpaceFree(npi.name)
    /\ npi.aliases.some => \A j \in 1..Len(npi.aliases.v) : SpaceFree(npi.aliases.v[j])

\* the short name, when present, is exactly one character
OneCharShort(npi) == npi.short.some => Len(npi.short.v) = 1

NamedValid(npi) == NamedValidButShort(npi) /\ OneCharShort(npi)

EveryArgValid(r) ==
    /\ \A j \in 1..Len(r.positional) : PositionalValid(r.positional[j])
    /\ \A j \in 1..Len(r.non_positional) : NamedValid(r.non_positional[j])

Flag(npi) == npi.c_var \o IssetSuffix

RECURSIVE IndicesFrom(_, _, _)
IndicesFrom(text, op, j) ==
    IF j > Len(text) THEN <<>>
    ELSE (IF text[j].op = op THEN <<j>> ELSE <<>>) \o IndicesFrom(text, op, j + 1)

Pick(text, op) == SelectSeq(text, LAMBDA l : l.op = op)

\* the closing brace, in text, of the block opened at line l
BlockEnd(text, l) ==
    CHOOSE m \in (l + 1)..Len(text) :
        /\ text[m].op = "close" /\ text[m].ind = text[l].ind
        /\ \A h \in (l + 1)..(m - 1) : ~ (text[h].op = "close" /\ text[h].ind = text[l].ind)

BlockOps(text, l) == [j \in 1..(BlockEnd(text, l) - l - 1) |-> text[l + j].op]

CountOps(ops, S) == Cardinality({ j \in 1..Len(ops) : ops[j] \in S })

---------------------------------------------------------------------------
(* C1: validation is atomic.  When any positional or named argument of a  *)
(* well-formed document violates an invariant, from_reader panics: no      *)
(* Spec is returned and nothing is generated or written.  A Spec is        *)
(* returned, and output exists, only when every argument of both lists     *)
(* passes every check.                                                     *)
C1_ValidationAtomic ==
    /\ (pc # "start" /\ raw.wellformed /\ ~ EveryArgValid(raw))
          => (pc = "panicked" /\ spec = NoSpec /\ out = <<>> /\ sink = <<>>)
    /\ (pc = "loaded" \/ spec # NoSpec \/ out # <<>> \/ sink # <<>>)
          => (raw.wellformed /\ EveryArgValid(raw) /\ spec = Deserialize(raw))

\* a valid positional and a valid first named argument, an invalid second one
C1_Witness ==
    /\ pc = "panicked"
    /\ Len(raw.positional) = 1 /\ PositionalValid(raw.positional[1])
    /\ Len(raw.non_positional) = 2
    /\ NamedValid(raw.non_positional[1])
    /\ ~ NamedValid(raw.non_positional[2])
    /\ spec = NoSpec /\ out = <<>> /\ sink = <<>>

AssignOps == {"assign_atoi", "assign_str", "assign_chr"}

GenTotal(text, s) ==
    LET nps == s.non_positional
        ifs == IndicesFrom(text, "if_match", 1)
        posts == IndicesFrom(text, "if_not_isset", 1)
    IN  /\ Len(ifs) = Len(nps)
        /\ Len(posts) = Len(nps)
        /\ \A k \in 1..Len(nps) :
              /\ CountOps(BlockOps(text, ifs[k]), AssignOps) = 1
              /\ \E l \in (ifs[k] + 1)..(BlockEnd(text, ifs[k]) - 1) :
                    text[l].op \in AssignOps /\ text[l].a = nps[k].c_var
              /\ (~ UnwrapOrFalse(nps[k].required) /\ nps[k].default.some)
                    => /\ CountOps(BlockOps(text, posts[k]), {"assign_lit"}) = 1
                       /\ text[posts[k] + 1].a = nps[k].c_var

(* C3: the type whitelist and the totality of generation.  Validation      *)
(* rejects every argument whose c_type is not char, char* or int32; in the *)
(* text generated for a validated Spec each named argument's match         *)
(* fragment holds exactly one value assignment, and the post-loop fragment *)
(* of each non-required named argument with a default holds exactly one    *)
(* default assignment.                                                     *)
C3_TypeWhitelistTotal ==
    /\ (pc # "start" /\ raw.wellformed
        /\ (\/ \E j \in 1..Len(raw.positional) : ~ InWhitelist(raw.positional[j].c_type)
            \/ \E j \in 1..Len(raw.non_positional) : ~ InWhitelist(raw.non_positional[j].c_type)))
          => pc = "panicked"
    /\ pc = "loaded"
          => /\ \A j \in 1..Len(spec.positional) : InWhitelist(spec.positional[j].c_type)
             /\ \A j \in 1..Len(spec.non_positional) : InWhitelist(spec.non_positional[j].c_type)
    /\ out # <<>> => GenTotal(out, spec)
    /\ (pc = "loaded" /\ sink # <<>>) => GenTotal(sink, spec)

\* generated text of two named arguments, one of them not required with a default
C3_Witness ==
    /\ out # <<>>
    /\ Len(spec.non_positional) = 2
    /\ \E k \in 1..2 : /\ ~ UnwrapOrFalse(spec.non_positional[k].required)
                       /\ spec.non_positional[k].default.some
    /\ GenTotal(out, spec)

(* C4: validation accepts a named argument's short name, when present, if  *)
(* and only if it is exactly one character, whatever its encoded byte      *)
(* length.                                                                 *)
C4_ShortNameOneChar ==
    (/\ pc # "start"
     /\ raw.wellformed
     /\ \A j \in 1..Len(raw.positional) : PositionalValid(raw.positional[j])
     /\ \A j \in 1..Len(raw.non_positional) : NamedValidButShort(raw.non_positional[j]))
    => (pc = "loaded" <=> \A j \in 1..Len(raw.non_positional) : OneCharShort(raw.non_positional[j]))

NamesWhitespaceFree(npi) ==
    /\ WhitespaceFree(npi.name)
    /\ npi.aliases.some => \A j \in 1..Len(npi.aliases.v) : WhitespaceFree(npi.aliases.v[j])

(* C5: validation rejects every named argument whose long name or any of   *)
(* whose aliases contains a whitespace character (space, tab, newline...): *)
(* no Spec that from_reader returns contains such a name or alias.         *)
C5_NoWhitespaceInNames ==
    /\ (pc # "start" /\ raw.wellformed
        /\ \E j \in 1..Len(raw.non_positional) : ~ NamesWhitespaceFree(raw.non_positional[j]))
          => pc = "panicked"
    /\ pc = "loaded"
          => \A j \in 1..Len(spec.non_positional) : NamesWhitespaceFree(spec.non_positional[j])

RECURSIVE SplitArgs(_)
SplitArgs(t) ==
    IF t = <<>> THEN <<>>
    ELSE IF Len(t) < 3 \/ SubSeq(t, 1, 3) # AmpSep THEN << <<0>> >>
    ELSE LET rest == SubSeq(t, 4, Len(t))
             n == CHOOSE m \in 0..Len(rest) :
                      /\ m = Len(rest) \/ rest[m + 1] = 44
                      /\ \A h \in 1..m : rest[h] # 44
         IN  <<SubSeq(rest, 1, n)>> \o SplitArgs(SubSeq(rest, n + 1, Len(rest)))

\* the usage line shows "  --" and the long name after the short-name column
UsageShows(txt, npi) ==
    LET off == IF npi.short.some THEN 3 + Len(npi.short.v) ELSE 5
    IN  /\ Len(txt) >= off + 4 + Len(npi.name)
        /\ SubSeq(txt, off + 1, off + 4 + Len(npi.name)) = <<32, 32>> \o DashDash \o npi.name

Ordered(text, s) ==
    LET ps == s.positional
        nps == s.non_positional
        flags == Pick(text, "decl_isset")
        ifs == Pick(text, "if_match")
        posts == Pick(text, "if_not_isset")
        decls == Pick(text, "decl")
        calls == Pick(text, "call_parse_args")
        usages == Pick(text, "usage_item")
    IN  /\ [j \in 1..Len(flags) |-> flags[j].a] = [j \in 1..Len(nps) |-> Flag(nps[j])]
        /\ [j \in 1..Len(ifs) |-> ifs[j].b] = [j \in 1..Len(nps) |-> DashDash \o nps[j].name]
        /\ [j \in 1..Len(posts) |-> posts[j].a] = [j \in 1..Len(nps) |-> Flag(nps[j])]
        /\ [j \in 1..Len(decls) |-> <<decls[j].t, decls[j].a>>]
             = [j \in 1..Len(ps) |-> <<ps[j].c_type, ps[j].c_var>>]
               \o [j \in 1..Len(nps) |-> <<nps[j].c_type, nps[j].c_var>>]
        /\ Len(calls) = 1
        /\ SplitArgs(calls[1].b)
             = [j \in 1..Len(ps) |-> ps[j].c_var] \o [j \in 1..Len(nps) |-> nps[j].c_var]
        /\ Len(usages) = Len(nps)
        /\ \A j \in 1..Len(nps) : UsageShows(usages[j].b, nps[j])

---------------------------------------------------------------------------
(* Properties of the emitted parse_args routine (RunSpec).                 *)

NPs == spec.non_positional

\* the lines that open the match fragment and the post-loop fragment of NPs[k]
IfLine(k) == IndicesFrom(prog, "if_match", 1)[k]
PostLine(k) == IndicesFrom(prog, "if_not_isset", 1)[k]

\* the type conversion table: token -> value
Conv(t, tok) ==
    IF t = "int32" THEN <<Atoi(tok)>>
    ELSE IF t = "char" THEN <<FirstChar(tok)>>
    ELSE tok

ScanEnded == At("for") /\ prog[line].t = "arg_count"

(* C2: required takes precedence over a default.  For a named argument     *)
(* with required=true and a default, the post-loop fragment, run with the  *)
(* seen flag false, prints usage and exits with status 1 and never assigns *)
(* the default; a default is only ever assigned to an unseen argument      *)
(* whose required is absent or false.                                      *)
C2_RequiredBeforeDefault ==
    status # "idle" =>
    \A k \in 1..Len(NPs) :
        LET npi == NPs[k]
            pl == PostLine(k)
        IN  /\ (UnwrapOrFalse(npi.required) /\ npi.default.some)
                  => /\ BlockOps(prog, pl) = <<"usage", "exit1">>
                     /\ vals[npi.c_var].from # "default"
                     /\ line > pl => isset[Flag(npi)]
                     /\ (line = pl /\ status = "exit1") => (~ isset[Flag(npi)] /\ printed)
            /\ vals[npi.c_var].from = "default"
                  => /\ ~ UnwrapOrFalse(npi.required)
                     /\ npi.default.some
                     /\ ~ isset[Flag(npi)]
                     /\ line > pl

\* the routine has exited in the post-loop fragment of a required argument
\* that has a default
C2_Witness ==
    \E k \in 1..Len(NPs) :
        /\ UnwrapOrFalse(NPs[k].required) /\ NPs[k].default.some
        /\ status = "exit1" /\ line = PostLine(k) /\ printed
        /\ vals[NPs[k].c_var] = Unset

(* C7: the order of the named arguments does not affect parsing: the       *)
(* routines emitted for the same named arguments in two orders end, on     *)
(* every command line, with the same seen flags, the same variable values  *)
(* and the same exit/continue outcome (the flags and values are compared   *)
(* when the routine returns, the outcome always).                          *)
C7_OrderIrrelevant ==
    (first # <<>> /\ status \in {"returned", "exit1"})
    => /\ status = first[1].status
       /\ status = "returned" => (isset = first[1].isset /\ vals = first[1].vals)

(* C8: once the post-loop fragment of a named argument has run and the     *)
(* program is still running, the argument's variable has been set, from a  *)
(* command-line token or from its default.                                 *)
C8_SetAfterPostLoop ==
    status \in {"running", "returned"} =>
    \A k \in 1..Len(NPs) :
        line > MatchingClose(PostLine(k)) => vals[NPs[k].c_var].from # "unset"

C9_Step ==
    \A k \in 1..Len(NPs) :
        LET npi == NPs[k]
            f == Flag(npi)
            v == npi.c_var
            hit == /\ At("if_match")
                   /\ line = IfLine(k)
                   /\ Argv(i) = DashDash \o npi.name
                   /\ i + 1 < Argc
        IN  /\ hit => /\ isset'[f] = TRUE
                      /\ vals'[v] = FromArgv(Conv(npi.c_type, Argv(i + 1)))
                      /\ i' = i + 1
            /\ (~ hit /\ first' = first)
                  => /\ f \in DOMAIN isset => isset'[f] = isset[f]
                     /\ (f \notin DOMAIN isset /\ f \in DOMAIN isset') => isset'[f] = FALSE
                     /\ vals'[v] # vals[v] => vals'[v].from = "default"

(* C9: in the scan loop a named argument's seen flag becomes true, and its *)
(* variable is assigned the converted next token, if and only if the token *)
(* at the scan index equals "--" followed by its long name and a next      *)
(* token exists.  A token "-" short name or "--" alias, and a long-name    *)
(* token that is the last token, leave the flag and the variable alone.    *)
C9_LongNameOnly == [][C9_Step]_vars

\* the scan has ended on "--alias --name value": the alias of one argument has
\* set nothing, the long name of another has set its flag and its variable
C9_Witness ==
    /\ ScanEnded
    /\ Argc = 4
    /\ \E k, m \in 1..Len(NPs) :
          /\ k # m
          /\ NPs[k].aliases.some /\ NPs[k].aliases.v # <<>>
          /\ Argv(1) = DashDash \o NPs[k].aliases.v[1]
          /\ ~ isset[Flag(NPs[k])]
          /\ vals[NPs[k].c_var] = Unset
          /\ Argv(2) = DashDash \o NPs[m].name
          /\ isset[Flag(NPs[m])]
          /\ vals[NPs[m].c_var] = FromArgv(Conv(NPs[m].c_type, Argv(3)))

(* C10: when the scan loop ends, arg_count is the number of tokens that    *)
(* named-argument matching consumed, each token counted once, so that it   *)
(* never exceeds argc - 1.                                                 *)
C10_ArgCountBound == ScanEnded => arg_count <= Argc - 1

=============================================================================
